---- MODULE Spec2Model ----
(***************************************************************************)
(* A model of the RISC-V RV32I assembler: the 32-bit number class          *)
(* (bin_num.py), the six instruction formats and the Inst class            *)
(* (riscv_inst.py), the instruction and pseudo-instruction tables          *)
(* (instructions.py) and the line compiler (riscv_compiler.py).            *)
(*                                                                         *)
(* Text is a sequence of one-character strings.  A Python int that can     *)
(* leave the signed 32-bit range of the model's integers (a masked value,  *)
(* an encoded word) is kept as its two 16-bit halves [hi, lo].             *)
(***************************************************************************)
EXTENDS Integers, Sequences, FiniteSets, TLC

VARIABLES call, res, stdout

vars == <<call, res, stdout>>

(***************************************************************************)
(* bin_num.py                                                              *)
(***************************************************************************)

Pow2(k) == 2 ^ k

\* value & 2**32-1 for a value in the signed 32-bit range, as 16-bit halves.
Mask32(v) == [hi |-> (v \div 65536) % 65536, lo |-> v % 65536]

\* BinNum(value).  The stored value is read only through value_strb and
\* value_strh, which mask it, so the object is kept as the masked value.
BinNum(v) == Mask32(v)

\* f"{n:0{w}b}" for 0 <= n < 2^w
FormatBin(n, w) == [i \in 1..w |-> IF (n \div Pow2(w - i)) % 2 = 1 THEN "1" ELSE "0"]

HexDigits == <<"0","1","2","3","4","5","6","7","8","9","a","b","c","d","e","f">>

\* f"{n:0{w}x}" for 0 <= n < 16^w
FormatHex(n, w) == [i \in 1..w |-> HexDigits[((n \div (16 ^ (w - i))) % 16) + 1]]

value_strb(b) == FormatBin(b.hi, 16) \o FormatBin(b.lo, 16)

value_strh(b) == FormatHex(b.hi, 4) \o FormatHex(b.lo, 4)

\* Python slice s[a:b] (0-based, end exclusive, clamped to the string).
\* Only non-negative indices occur.
Slice(s, a, b) == SubSeq(s, a + 1, IF b > Len(s) THEN Len(s) ELSE b)

get_bits_off_by_one(b, top, bottom) == Slice(value_strb(b), 32 - top, 32 - bottom)

get_bits(b, top, bottom) == Slice(value_strb(b), (32 - 1) - top, 32 - bottom)

(***************************************************************************)
(* riscv_inst.py: instruction types and formats                            *)
(***************************************************************************)

RISCV_TYPE_R == 1
RISCV_TYPE_I == 2
RISCV_TYPE_S == 3
RISCV_TYPE_B == 4
RISCV_TYPE_U == 5
RISCV_TYPE_J == 6
RISCV_TYPE_MAX == 6

\* Python None where a text operand is expected.
None == <<"None">>

\* RISCV_TYPE_FORMATS[t][0]: the machine-code format, a string of bits.
format_mc_B_swapped(t, op, funct3, funct7, rd, rs1, rs2, imm) ==
    CASE t = RISCV_TYPE_R ->
           get_bits(funct7, 6, 0) \o get_bits(rs2, 4, 0) \o get_bits(rs1, 4, 0)
           \o get_bits(funct3, 2, 0) \o get_bits(rd, 4, 0) \o get_bits(op, 6, 0)
      [] t = RISCV_TYPE_I ->
           get_bits(imm, 11, 0) \o get_bits(rs1, 4, 0) \o get_bits(funct3, 2, 0)
           \o get_bits(rd, 4, 0) \o get_bits(op, 6, 0)
      [] t = RISCV_TYPE_S ->
           get_bits(imm, 11, 5) \o get_bits(rs2, 4, 0) \o get_bits(rs1, 4, 0)
           \o get_bits(funct3, 2, 0) \o get_bits(imm, 4, 0) \o get_bits(op, 6, 0)
      [] t = RISCV_TYPE_B ->
           get_bits(imm, 11, 11) \o get_bits(imm, 10, 5) \o get_bits(rs2, 4, 0)
           \o get_bits(rs1, 4, 0) \o get_bits(funct3, 2, 0) \o get_bits(imm, 4, 1)
           \o get_bits(imm, 12, 12) \o get_bits(op, 6, 0)
      [] t = RISCV_TYPE_U ->
           get_bits(imm, 31, 12) \o get_bits(rd, 4, 0) \o get_bits(op, 6, 0)
      [] t = RISCV_TYPE_J ->
           get_bits(imm, 20, 20) \o get_bits(imm, 10, 1) \o get_bits(imm, 11, 11)
           \o get_bits(imm, 19, 12) \o get_bits(rd, 4, 0) \o get_bits(op, 6, 0)

\* format_mc with funct7 packed above a 5-bit immediate for I.
format_mc_I_funct7(t, op, funct3, funct7, rd, rs1, rs2, imm) ==
    CASE t = RISCV_TYPE_R ->
           get_bits(funct7, 6, 0) \o get_bits(rs2, 4, 0) \o get_bits(rs1, 4, 0)
           \o get_bits(funct3, 2, 0) \o get_bits(rd, 4, 0) \o get_bits(op, 6, 0)
      [] t = RISCV_TYPE_I ->
           get_bits(funct7, 6, 0) \o get_bits(imm, 4, 0) \o get_bits(rs1, 4, 0)
           \o get_bits(funct3, 2, 0)
           \o get_bits(rd, 4, 0) \o get_bits(op, 6, 0)
      [] t = RISCV_TYPE_S ->
           get_bits(imm, 11, 5) \o get_bits(rs2, 4, 0) \o get_bits(rs1, 4, 0)
           \o get_bits(funct3, 2, 0) \o get_bits(imm, 4, 0) \o get_bits(op, 6, 0)
      [] t = RISCV_TYPE_B ->
           get_bits(imm, 12, 12) \o get_bits(imm, 10, 5) \o get_bits(rs2, 4, 0)
           \o get_bits(rs1, 4, 0) \o get_bits(funct3, 2, 0) \o get_bits(imm, 4, 1)
           \o get_bits(imm, 11, 11) \o get_bits(op, 6, 0)
      [] t = RISCV_TYPE_U ->
           get_bits(imm, 31, 12) \o get_bits(rd, 4, 0) \o get_bits(op, 6, 0)
      [] t = RISCV_TYPE_J ->
           get_bits(imm, 20, 20) \o get_bits(imm, 10, 1) \o get_bits(imm, 11, 11)
           \o get_bits(imm, 19, 12) \o get_bits(rd, 4, 0) \o get_bits(op, 6, 0)

format_mc(t, op, funct3, funct7, rd, rs1, rs2, imm) ==
    CASE t = RISCV_TYPE_R ->
           get_bits(funct7, 6, 0) \o get_bits(rs2, 4, 0) \o get_bits(rs1, 4, 0)
           \o get_bits(funct3, 2, 0) \o get_bits(rd, 4, 0) \o get_bits(op, 6, 0)
      [] t = RISCV_TYPE_I ->
           get_bits(imm, 11, 0) \o get_bits(rs1, 4, 0) \o get_bits(funct3, 2, 0)
           \o get_bits(rd, 4, 0) \o get_bits(op, 6, 0)
      [] t = RISCV_TYPE_S ->
           get_bits(imm, 11, 5) \o get_bits(rs2, 4, 0) \o get_bits(rs1, 4, 0)
           \o get_bits(funct3, 2, 0) \o get_bits(imm, 4, 0) \o get_bits(op, 6, 0)
      [] t = RISCV_TYPE_B ->
           get_bits(imm, 12, 12) \o get_bits(imm, 10, 5) \o get_bits(rs2, 4, 0)
           \o get_bits(rs1, 4, 0) \o get_bits(funct3, 2, 0) \o get_bits(imm, 4, 1)
           \o get_bits(imm, 11, 11) \o get_bits(op, 6, 0)
      [] t = RISCV_TYPE_U ->
           get_bits(imm, 31, 12) \o get_bits(rd, 4, 0) \o get_bits(op, 6, 0)
      [] t = RISCV_TYPE_J ->
           get_bits(imm, 20, 20) \o get_bits(imm, 10, 1) \o get_bits(imm, 11, 11)
           \o get_bits(imm, 19, 12) \o get_bits(rd, 4, 0) \o get_bits(op, 6, 0)

\* The operand-role dictionary of a format, or Python None (isNone).
Roles(rd, rs1, rs2, imm) == [isNone |-> FALSE, rd |-> rd, rs1 |-> rs1, rs2 |-> rs2, imm |-> imm]

NoRoles == [isNone |-> TRUE, rd |-> None, rs1 |-> None, rs2 |-> None, imm |-> None]

\* Variants of format_asm: rs1 and rs2 exchanged for R; surplus operands ignored.
format_asm_R_swapped(t, params) ==
    CASE t = RISCV_TYPE_R ->
           IF Len(params) = 3 THEN Roles(params[1], params[3], params[2], None) ELSE NoRoles
      [] t = RISCV_TYPE_I ->
           IF Len(params) = 3 THEN Roles(params[1], params[2], None, params[3]) ELSE NoRoles
      [] t = RISCV_TYPE_S ->
           IF Len(params) = 3 THEN Roles(None, params[2], params[1], params[3]) ELSE NoRoles
      [] t = RISCV_TYPE_B ->
           IF Len(params) = 3 THEN Roles(None, params[1], params[2], params[3]) ELSE NoRoles
      [] t = RISCV_TYPE_U ->
           IF Len(params) = 2 THEN Roles(params[1], None, None, params[2]) ELSE NoRoles
      [] t = RISCV_TYPE_J ->
           IF Len(params) = 2 THEN Roles(params[1], None, None, params[2]) ELSE NoRoles

format_asm_defaulting(t, params) ==
    CASE t = RISCV_TYPE_R ->
           IF Len(params) >= 3 THEN Roles(params[1], params[2], params[3], None) ELSE NoRoles
      [] t = RISCV_TYPE_I ->
           IF Len(params) >= 3 THEN Roles(params[1], params[2], None, params[3]) ELSE NoRoles
      [] t = RISCV_TYPE_S ->
           IF Len(params) >= 3 THEN Roles(None, params[2], params[1], params[3]) ELSE NoRoles
      [] t = RISCV_TYPE_B ->
           IF Len(params) >= 3 THEN Roles(None, params[1], params[2], params[3]) ELSE NoRoles
      [] t = RISCV_TYPE_U ->
           IF Len(params) >= 2 THEN Roles(params[1], None, None, params[2]) ELSE NoRoles
      [] t = RISCV_TYPE_J ->
           IF Len(params) >= 2 THEN Roles(params[1], None, None, params[2]) ELSE NoRoles

\* RISCV_TYPE_FORMATS[t][1]: the assembly format (params is 1-based here).
format_asm(t, params) ==
    CASE t = RISCV_TYPE_R ->
           IF Len(params) = 3 THEN Roles(params[1], params[2], params[3], None) ELSE NoRoles
      [] t = RISCV_TYPE_I ->
           IF Len(params) = 3 THEN Roles(params[1], params[2], None, params[3]) ELSE NoRoles
      [] t = RISCV_TYPE_S ->
           IF Len(params) = 3 THEN Roles(None, params[2], params[1], params[3]) ELSE NoRoles
      [] t = RISCV_TYPE_B ->
           IF Len(params) = 3 THEN Roles(None, params[1], params[2], params[3]) ELSE NoRoles
      [] t = RISCV_TYPE_U ->
           IF Len(params) = 2 THEN Roles(params[1], None, None, params[2]) ELSE NoRoles
      [] t = RISCV_TYPE_J ->
           IF Len(params) = 2 THEN Roles(params[1], None, None, params[2]) ELSE NoRoles

(***************************************************************************)
(* Values and outcomes                                                     *)
(***************************************************************************)

\* A Python value that is an int or a str (convert_param returns either).
IntVal(n) == [kind |-> "int", n |-> n, s |-> <<>>]

StrVal(s) == [kind |-> "str", n |-> 0, s |-> s]

ZeroWord == [hi |-> 0, lo |-> 0]

\* The outcome of a call: nothing yet, a returned BinNum (word), a returned
\* value (val), a constructed Inst (obj), or a raised exception (exc, msg, the text it names, the line
\* number it names; line 0 when the message carries none).
\* No Inst instance.
NoInst ==
    [ok |-> FALSE, err |-> "", type |-> 0, op |-> ZeroWord, funct3 |-> ZeroWord,
     funct7 |-> ZeroWord]

NoResult ==
    [status |-> "none", word |-> ZeroWord, val |-> IntVal(0), obj |-> NoInst,
     exc |-> "", msg |-> "", what |-> <<>>, line |-> 0]

ReturnWord(w) == [NoResult EXCEPT !.status = "ok", !.word = w]

ReturnObj(i) == [NoResult EXCEPT !.status = "ok", !.obj = i]

ReturnVal(v) == [NoResult EXCEPT !.status = "ok", !.val = v]

Raise(exc, msg, what, line) ==
    [NoResult EXCEPT !.status = "error", !.exc = exc, !.msg = msg,
                     !.what = what, !.line = line]

(***************************************************************************)
(* riscv_inst.py: class Inst                                               *)
(***************************************************************************)

\* The signed 32-bit range compile accepts for imm.  The model's integers
\* have exactly this range.
MinImm == -2147483647 - 1
MaxImm == 2147483647

\* Inst.__init__ with the opcode checked against 8 bits.
Inst_op_8_bits(inst_type, op_code, funct3, funct7) ==
    LET bad(m) == [ok |-> FALSE, err |-> m, type |-> 0, op |-> ZeroWord,
                   funct3 |-> ZeroWord, funct7 |-> ZeroWord]
    IN  IF inst_type < 1 \/ inst_type > RISCV_TYPE_MAX THEN bad("Invalid type value")
        ELSE IF op_code < 0 \/ op_code > 255 THEN bad("Invalid op value")
        ELSE IF funct3 < 0 \/ funct3 > 7 THEN bad("Invalid funct3 value")
        ELSE IF funct7 < 0 \/ funct7 > 127 THEN bad("Invalid funct7 value")
        ELSE [ok |-> TRUE, err |-> "", type |-> inst_type, op |-> BinNum(op_code),
              funct3 |-> BinNum(funct3), funct7 |-> BinNum(funct7)]

\* Inst.__init__: the instance, or the ValueError it raises (ok = FALSE).
Inst(inst_type, op_code, funct3, funct7) ==
    LET bad(m) == [ok |-> FALSE, err |-> m, type |-> 0, op |-> ZeroWord,
                   funct3 |-> ZeroWord, funct7 |-> ZeroWord]
    IN  IF inst_type < 1 \/ inst_type > RISCV_TYPE_MAX THEN bad("Invalid type value")
        ELSE IF op_code < 0 \/ op_code > 127 THEN bad("Invalid op value")
        ELSE IF funct3 < 0 \/ funct3 > 7 THEN bad("Invalid funct3 value")
        ELSE IF funct7 < 0 \/ funct7 > 127 THEN bad("Invalid funct7 value")
        ELSE [ok |-> TRUE, err |-> "", type |-> inst_type, op |-> BinNum(op_code),
              funct3 |-> BinNum(funct3), funct7 |-> BinNum(funct7)]

\* Inst.asm_params; params is always a tuple here.
asm_params(self, params) == format_asm(self.type, params)

\* int(s, 2) of a string s of 32 binary digits, as 16-bit halves.
RECURSIVE BinValue(_)
BinValue(s) ==
    IF s = <<>> THEN 0
    ELSE 2 * BinValue(SubSeq(s, 1, Len(s) - 1)) + (IF s[Len(s)] = "1" THEN 1 ELSE 0)

IntBase2(s) ==
    [hi |-> BinValue(SubSeq(s, 1, Len(s) - 16)),
     lo |-> BinValue(SubSeq(s, Len(s) - 15, Len(s)))]

\* Inst.compile.  Comparing a str with an int raises TypeError.
compile(self, rd, rs1, rs2, imm) ==
    IF rd.kind # "int" THEN Raise("TypeError", "", <<>>, 0)
    ELSE IF rd.n < 0 \/ rd.n > 31 THEN Raise("ValueError", "Invalid rd value", <<>>, 0)
    ELSE IF rs1.kind # "int" THEN Raise("TypeError", "", <<>>, 0)
    ELSE IF rs1.n < 0 \/ rs1.n > 31 THEN Raise("ValueError", "Invalid rs1 value", <<>>, 0)
    ELSE IF rs2.kind # "int" THEN Raise("TypeError", "", <<>>, 0)
    ELSE IF rs2.n < 0 \/ rs2.n > 31 THEN Raise("ValueError", "Invalid rs2 value", <<>>, 0)
    ELSE IF imm.kind # "int" THEN Raise("TypeError", "", <<>>, 0)
    ELSE IF imm.n < MinImm \/ imm.n > MaxImm
         THEN Raise("ValueError", "Invalid imm value", <<>>, 0)
    ELSE ReturnWord(IntBase2(format_mc(self.type, self.op, self.funct3, self.funct7,
                                       BinNum(rd.n), BinNum(rs1.n), BinNum(rs2.n),
                                       BinNum(imm.n))))

(***************************************************************************)
(* instructions.py: the instruction and pseudo-instruction tables          *)
(***************************************************************************)

insts ==
    <<"l","b">> :> Inst(RISCV_TYPE_I, 3, 0, 0) @@
    <<"l","h">> :> Inst(RISCV_TYPE_I, 3, 1, 0) @@
    <<"l","w">> :> Inst(RISCV_TYPE_I, 3, 2, 0) @@
    <<"l","b","u">> :> Inst(RISCV_TYPE_I, 3, 4, 0) @@
    <<"l","h","u">> :> Inst(RISCV_TYPE_I, 3, 5, 0) @@
    <<"a","d","d","i">> :> Inst(RISCV_TYPE_I, 19, 0, 0) @@
    <<"s","l","l","i">> :> Inst(RISCV_TYPE_I, 19, 1, 0) @@
    <<"s","l","t","i">> :> Inst(RISCV_TYPE_I, 19, 2, 0) @@
    <<"s","l","t","i","u">> :> Inst(RISCV_TYPE_I, 19, 3, 0) @@
    <<"x","o","r","i">> :> Inst(RISCV_TYPE_I, 19, 4, 0) @@
    <<"s","r","l","i">> :> Inst(RISCV_TYPE_I, 19, 5, 0) @@
    <<"s","r","a","i">> :> Inst(RISCV_TYPE_I, 19, 5, 32) @@
    <<"o","r","i">> :> Inst(RISCV_TYPE_I, 19, 6, 0) @@
    <<"a","n","d","i">> :> Inst(RISCV_TYPE_I, 19, 7, 0) @@
    <<"a","u","i","p","c">> :> Inst(RISCV_TYPE_U, 23, 0, 0) @@
    <<"s","b">> :> Inst(RISCV_TYPE_S, 35, 0, 0) @@
    <<"s","h">> :> Inst(RISCV_TYPE_S, 35, 1, 0) @@
    <<"s","w">> :> Inst(RISCV_TYPE_S, 35, 2, 0) @@
    <<"a","d","d">> :> Inst(RISCV_TYPE_R, 51, 0, 0) @@
    <<"s","u","b">> :> Inst(RISCV_TYPE_R, 51, 0, 32) @@
    <<"s","l","l">> :> Inst(RISCV_TYPE_R, 51, 1, 0) @@
    <<"s","l","t">> :> Inst(RISCV_TYPE_R, 51, 2, 0) @@
    <<"s","l","t","u">> :> Inst(RISCV_TYPE_R, 51, 3, 0) @@
    <<"x","o","r">> :> Inst(RISCV_TYPE_R, 51, 4, 0) @@
    <<"s","r","l">> :> Inst(RISCV_TYPE_R, 51, 5, 0) @@
    <<"s","r","a">> :> Inst(RISCV_TYPE_R, 51, 5, 32) @@
    <<"o","r">> :> Inst(RISCV_TYPE_R, 51, 6, 0) @@
    <<"a","n","d">> :> Inst(RISCV_TYPE_R, 51, 7, 0) @@
    <<"l","u","i">> :> Inst(RISCV_TYPE_U, 55, 0, 0) @@
    <<"b","e","q">> :> Inst(RISCV_TYPE_B, 99, 0, 0) @@
    <<"b","n","e">> :> Inst(RISCV_TYPE_B, 99, 1, 0) @@
    <<"b","l","t">> :> Inst(RISCV_TYPE_B, 99, 4, 0) @@
    <<"b","g","e">> :> Inst(RISCV_TYPE_B, 99, 5, 0) @@
    <<"b","l","t","u">> :> Inst(RISCV_TYPE_B, 99, 6, 0) @@
    <<"b","g","e","u">> :> Inst(RISCV_TYPE_B, 99, 7, 0) @@
    <<"j","a","l","r">> :> Inst(RISCV_TYPE_I, 103, 0, 0) @@
    <<"j","a","l">> :> Inst(RISCV_TYPE_J, 111, 0, 0)

pinsts ==
    <<"n","o","p">> :> <<"a","d","d","i"," ","x","0",","," ","x","0",","," ","0">> @@
    <<"l","i">> :> <<"a","d","d","i"," ","{","0","}",","," ","x","0",","," ","{","1","}">> @@
    <<"m","v">> :> <<"a","d","d","i"," ","{","0","}",","," ","{","1","}",","," ","0">> @@
    <<"n","o","t">> :> <<"x","o","r","i"," ","{","0","}",","," ","{","1","}",","," ","-","1">> @@
    <<"n","e","g">> :> <<"s","u","b"," ","{","0","}",","," ","x","0",","," ","{","1","}">> @@
    <<"s","e","q","z">> :> <<"s","l","t","i","u"," ","{","0","}",","," ","{","1","}",","," ","1">> @@
    <<"s","n","e","z">> :> <<"s","l","t","u"," ","{","0","}",","," ","x","0",","," ","{","1","}">> @@
    <<"s","l","t","z">> :> <<"s","l","t"," ","{","0","}",","," ","{","1","}",","," ","x","0">> @@
    <<"s","g","t","z">> :> <<"s","l","t"," ","{","0","}",","," ","x","0",","," ","{","1","}">> @@
    <<"b","e","q","z">> :> <<"b","e","q"," ","{","0","}",","," ","x","0",","," ","{","1","}">> @@
    <<"b","n","e","z">> :> <<"b","n","e"," ","{","0","}",","," ","x","0",","," ","{","1","}">> @@
    <<"b","l","e","z">> :> <<"b","g","e"," ","x","0",","," ","{","0","}",","," ","{","1","}">> @@
    <<"b","g","e","z">> :> <<"b","g","e"," ","{","0","}",","," ","x","0",","," ","{","1","}">> @@
    <<"b","l","t","z">> :> <<"b","l","t"," ","{","0","}",","," ","x","0",","," ","{","1","}">> @@
    <<"b","g","t","z">> :> <<"b","l","t"," ","x","0",","," ","{","0","}",","," ","{","1","}">> @@
    <<"b","l","e">> :> <<"b","g","e"," ","{","1","}",","," ","{","0","}",","," ","{","2","}">> @@
    <<"b","g","t">> :> <<"b","l","t"," ","{","1","}",","," ","{","0","}",","," ","{","2","}">> @@
    <<"b","l","e","u">> :> <<"b","g","e","u"," ","{","1","}",","," ","{","0","}",","," ","{","2","}">> @@
    <<"b","g","t","u">> :> <<"b","l","t","u"," ","{","1","}",","," ","{","0","}",","," ","{","2","}">> @@
    <<"j">> :> <<"j","a","l"," ","x","0",","," ","{","0","}">> @@
    <<"j","a","l">> :> <<"j","a","l"," ","r","a",","," ","{","0","}">> @@
    <<"j","r">> :> <<"j","a","l","r"," ","x","0",","," ","{","0","}",","," ","0">> @@
    <<"j","a","l","r">> :> <<"j","a","l","r"," ","r","a",","," ","{","0","}",","," ","0">> @@
    <<"r","e","t">> :> <<"j","a","l","r"," ","x","0",","," ","r","a",","," ","0">>

(***************************************************************************)
(* The register names (RISCV_REGISTERS)                                    *)
(***************************************************************************)

regs ==
    <<"z","e","r","o">> :> 0 @@ <<"r","a">> :> 1 @@ <<"s","p">> :> 2 @@ <<"g","p">> :> 3 @@ <<"t","p">> :> 4 @@
    <<"t","0">> :> 5 @@ <<"t","1">> :> 6 @@ <<"t","2">> :> 7 @@ <<"s","0">> :> 8 @@ <<"f","p">> :> 8 @@
    <<"s","1">> :> 9 @@ <<"a","0">> :> 10 @@ <<"a","1">> :> 11 @@ <<"a","2">> :> 12 @@ <<"a","3">> :> 13 @@
    <<"a","4">> :> 14 @@ <<"a","5">> :> 15 @@ <<"a","6">> :> 16 @@ <<"a","7">> :> 17 @@ <<"s","2">> :> 18 @@
    <<"s","3">> :> 19 @@ <<"s","4">> :> 20 @@ <<"s","5">> :> 21 @@ <<"s","6">> :> 22 @@ <<"s","7">> :> 23 @@
    <<"s","8">> :> 24 @@ <<"s","9">> :> 25 @@ <<"s","1","0">> :> 26 @@ <<"s","1","1">> :> 27 @@ <<"t","3">> :> 28 @@
    <<"t","4">> :> 29 @@ <<"t","5">> :> 30 @@ <<"t","6">> :> 31

(***************************************************************************)
(* Python str operations used by the compiler                              *)
(***************************************************************************)

Whitespace == {" ", "\t", "\n", "\r"}

Digits == {"0", "1", "2", "3", "4", "5", "6", "7", "8", "9"}

RECURSIVE LStrip(_)
LStrip(s) == IF s # <<>> /\ Head(s) \in Whitespace THEN LStrip(Tail(s)) ELSE s

RECURSIVE RStrip(_)
RStrip(s) ==
    IF s # <<>> /\ s[Len(s)] \in Whitespace THEN RStrip(SubSeq(s, 1, Len(s) - 1)) ELSE s

\* s.strip()
Strip(s) == RStrip(LStrip(s))

\* The first position of character c in s, 0 when there is none.
IndexOf(s, c) ==
    IF \E i \in 1..Len(s) : s[i] = c
    THEN CHOOSE i \in 1..Len(s) : s[i] = c /\ \A j \in 1..(i - 1) : s[j] # c
    ELSE 0

\* s.split(c)
RECURSIVE Split(_, _)
Split(s, c) ==
    LET i == IndexOf(s, c)
    IN  IF i = 0 THEN <<s>>
        ELSE <<SubSeq(s, 1, i - 1)>> \o Split(SubSeq(s, i + 1, Len(s)), c)

\* "".join(parts)
RECURSIVE Join(_)
Join(parts) == IF parts = <<>> THEN <<>> ELSE Head(parts) \o Join(Tail(parts))

\* s.replace(c, "")
Remove(s, c) == SelectSeq(s, LAMBDA x : x # c)

\* s.isdigit()
IsDigit(s) == s # <<>> /\ \A i \in 1..Len(s) : s[i] \in Digits

DigitValue(c) == CHOOSE d \in 0..9 : <<"0","1","2","3","4","5","6","7","8","9">>[d + 1] = c

\* int(s) for a string of decimal digits
RECURSIVE ParseInt(_)
ParseInt(s) ==
    IF s = <<>> THEN 0
    ELSE 10 * ParseInt(SubSeq(s, 1, Len(s) - 1)) + DigitValue(s[Len(s)])

(***************************************************************************)
(* riscv_compiler.py: class Compiler                                       *)
(***************************************************************************)

\* Compiler.get_line_params: (inst, params)
get_line_params(line) ==
    LET stripped == Strip(line)
        code     == Split(stripped, "#")[1]
        words    == Split(code, " ")
        params   == Split(Remove(Join(Tail(words)), " "), ",")
        last     == params[Len(params)]
        offset   == Split(last, "(")
    IN  [inst   |-> Head(words),
         params |-> IF \E i \in 1..Len(last) : last[i] = "("
                    THEN [params EXCEPT ![Len(params)] = Remove(offset[2], ")")]
                         \o <<offset[1]>>
                    ELSE params]

\* Compiler.convert_param
convert_param(param) ==
    IF param = None THEN ReturnVal(IntVal(0))
    ELSE IF param \in DOMAIN regs THEN ReturnVal(IntVal(regs[param]))
    ELSE IF param = <<>> THEN Raise("IndexError", "", param, 0)
    ELSE IF param[1] = "x" /\ IsDigit(Tail(param))
         THEN IF ParseInt(Tail(param)) < 0 \/ ParseInt(Tail(param)) > 31
              THEN Raise("ValueError", "Invalid parameter", param, 0)
              ELSE ReturnVal(IntVal(ParseInt(Tail(param))))
    ELSE IF IsDigit(param) THEN ReturnVal(IntVal(ParseInt(param)))
    ELSE IF param[Len(param)] # ":" THEN Raise("ValueError", "Invalid parameter", param, 0)
    ELSE ReturnVal(StrVal(SubSeq(param, 1, Len(param) - 1)))

\* The 1-based line number the error messages of compile_line name.
LineNumber_zero_based(pc) == pc \div 4

LineNumber(pc) == pc \div 4 + 1

\* Compiler.compile_line.  The dictionary comprehension converts rd, rs1, rs2,
\* imm in that order and the first exception ends the call.  The lookup of the
\* immediate in labels changes nothing.
compile_line(line, pc, labels) ==
    LET lp   == get_line_params(line)
        inst == lp.inst
    IN  IF inst \notin DOMAIN pinsts /\ inst \notin DOMAIN insts
        THEN Raise("ValueError", "Invalid instruction", inst, LineNumber(pc))
        ELSE IF inst \notin DOMAIN insts THEN Raise("KeyError", "", inst, 0)
        ELSE LET params_dict == asm_params(insts[inst], lp.params)
                 rd  == convert_param(params_dict.rd)
                 rs1 == convert_param(params_dict.rs1)
                 rs2 == convert_param(params_dict.rs2)
                 imm == convert_param(params_dict.imm)
             IN  IF params_dict.isNone
                 THEN Raise("ValueError", "Invalid parameters", <<>>, LineNumber(pc))
                 ELSE IF rd.status = "error" THEN rd
                 ELSE IF rs1.status = "error" THEN rs1
                 ELSE IF rs2.status = "error" THEN rs2
                 ELSE IF imm.status = "error" THEN imm
                 ELSE compile(insts[inst], rd.val, rs1.val, rs2.val, imm.val)

\* Compiler.compile(file), for a file that exists, given as its lines.
\* readlines() returns a list and a list has no split: the first statement
\* raises AttributeError, so the loop over the lines is never entered and
\* nothing is appended to machine_code.
compile_file(file) == Raise("AttributeError", "", <<>>, 0)

(***************************************************************************)
(* Inputs                                                                  *)
(***************************************************************************)

\* Immediates -SmallImm..SmallImm are tried next to the boundary values.
SmallImm == 3

\* Program counters 0, 4, ..., 4 * MaxLine are tried.
MaxLine == 2

\* Lines carry 0..MaxOperands operands.
MaxOperands == 4

\* Register tokens x0 .. x<MaxXReg> are tried.
MaxXReg == 33

\* The (rd, rs1, rs2) triples tried: every bit of each register field is set
\* in one triple and clear in another, and each field is out of range once.
RegTriples ==
    {<<0, 0, 0>>, <<10, 0, 0>>, <<10, 5, 21>>, <<21, 10, 5>>, <<5, 21, 10>>,
     <<31, 31, 31>>, <<1, 2, 4>>, <<8, 16, 1>>,
     <<32, 0, 0>>, <<0, -1, 0>>, <<0, 0, 32>>, <<-1, 32, 0>>}

ImmInputs ==
    (-SmallImm..SmallImm)
    \cup {MinImm, -1048576, -4098, -4096, -2049, -2048, 8, 12, 2047, 2048, 4094,
          4096, 20480, 1048574, 1048576, MaxImm}

PcInputs == {4 * i : i \in 0..MaxLine}

EmptyLabels == <<>>

LabelTables == {EmptyLabels, <<"e","n","d">> :> 12}

\* The decimal text of a natural number.
RECURSIVE Decimal(_)
Decimal(n) ==
    IF n < 10 THEN <<<<"0","1","2","3","4","5","6","7","8","9">>[n + 1]>>
    ELSE Decimal(n \div 10) \o <<<<"0","1","2","3","4","5","6","7","8","9">>[(n % 10) + 1]>>

XToken(n) == <<"x">> \o Decimal(n)

Unknown == {<<"f","o","o">>, <<"A","D","D">>, <<"L","i">>}

Mnemonics == DOMAIN insts \cup DOMAIN pinsts \cup Unknown

Ops1 == {<<"a","0">>, <<"t","0">>}

Ops2 == {<<"z","e","r","o">>, <<"x","2">>, <<"x","3","2">>, <<"5">>}

Ops3 == {<<"a","1">>, <<"5">>, <<"-","1">>, <<"2","0","4","8">>, <<"e","n","d",":">>}

ExtraOp == <<"a","2">>

OperandLists ==
    {[i \in 1..n |-> IF i = 1 THEN o1 ELSE IF i = 2 THEN o2 ELSE IF i = 3 THEN o3 ELSE ExtraOp] :
        n \in 0..MaxOperands, o1 \in Ops1, o2 \in Ops2, o3 \in Ops3}

\* ops joined by ", "
RECURSIVE CommaList(_)
CommaList(ops) ==
    IF ops = <<>> THEN <<>>
    ELSE IF Len(ops) = 1 THEN ops[1]
    ELSE ops[1] \o <<","," ">> \o CommaList(Tail(ops))

\* The text of a line: the mnemonic, a space and the operands; in the memory
\* form the last two operands base, off are written off(base).
OperandText(ops, mem) ==
    IF mem /\ Len(ops) >= 2
    THEN CommaList(SubSeq(ops, 1, Len(ops) - 2)
                   \o <<ops[Len(ops)] \o <<"(">> \o ops[Len(ops) - 1] \o <<")">>>>)
    ELSE CommaList(ops)

LineText(mn, ops, mem, deco) ==
    LET body == IF ops = <<>> THEN mn ELSE mn \o <<" ">> \o OperandText(ops, mem)
    IN  CASE deco = "plain"   -> body
          [] deco = "comment" -> body \o <<" ","#"," ","n","o","t","e">>
          [] deco = "indent"  -> <<" "," ">> \o body \o <<"\n">>

Decorations == {"plain", "comment", "indent"}

\* The sample of registers and immediates every decoration, pc and label
\* table is tried with.
DecoratedOps == {<<>>, <<<<"e","n","d">>>>, <<<<"x","0">>, <<"e","n","d">>>>, <<<<"a","0">>, <<"z","e","r","o">>, <<"a","1">>>>, <<<<"a","0">>, <<"x","2">>, <<"5">>>>, <<<<"a","0">>, <<"a","1">>>>}

ParamInputs ==
    DOMAIN regs
    \cup {XToken(n) : n \in 0..MaxXReg}
    \cup {None, <<>>, <<"x">>, <<"x","0","0","7">>, <<"x","a">>, <<"0">>, <<"5">>, <<"1","2">>, <<"2","0","4","7">>, <<"2","0","4","8">>,
          <<"-","1">>, <<"-","2","0","4","8">>, <<"+","5">>, <<"e","n","d",":">>, <<"e","n","d">>, <<"z","e","r">>, <<"A","0">>}

\* Files hold 0..MaxFileLines lines, each taken from FileLines.
MaxFileLines == 5

FileLines ==
    {<<>>, <<"#"," ","n","o","t","e">>, <<"a","d","d"," ","a","0",","," ","z","e","r","o",","," ","a","1">>, <<"j"," ","e","n","d">>, <<"e","n","d",":"," ","a","d","d"," ","a","0",","," ","z","e","r","o",","," ","a","1">>}

Files == UNION {[1..n -> FileLines] : n \in 0..MaxFileLines}

NoCall ==
    [fn |-> "none", name |-> <<>>, rd |-> 0, rs1 |-> 0, rs2 |-> 0, imm |-> 0,
     mn |-> <<>>, ops |-> <<>>, mem |-> FALSE, deco |-> "plain", line |-> <<>>,
     pc |-> 0, labels |-> EmptyLabels, param |-> <<>>, file |-> <<>>,
     inst_type |-> 0, op_code |-> 0, funct3 |-> 0, funct7 |-> 0]

(***************************************************************************)
(* The state machine.  The program is a library of functions: a state is   *)
(* one call of the public interface, pending (res.status = "none") or      *)
(* returned, and each action runs one function on the pending call.        *)
(***************************************************************************)

CompileCalls ==
    {[NoCall EXCEPT !.fn = "compile", !.name = name, !.rd = t[1], !.rs1 = t[2],
                    !.rs2 = t[3], !.imm = imm] :
        name \in DOMAIN insts, t \in RegTriples, imm \in ImmInputs}

LineCall(mn, ops, mem, deco, pc, labels) ==
    [NoCall EXCEPT !.fn = "compile_line", !.mn = mn, !.ops = ops, !.mem = mem,
                   !.deco = deco, !.line = LineText(mn, ops, mem, deco),
                   !.pc = pc, !.labels = labels]

LineCalls ==
    {LineCall(mn, ops, mem, "plain", 0, EmptyLabels) :
        mn \in Mnemonics, ops \in OperandLists, mem \in BOOLEAN}
    \cup {LineCall(mn, ops, FALSE, deco, pc, labels) :
        mn \in Mnemonics, ops \in DecoratedOps, deco \in Decorations,
        pc \in PcInputs, labels \in LabelTables}
    \cup {LineCall(<<>>, <<>>, FALSE, deco, pc, labels) :
        deco \in Decorations, pc \in PcInputs, labels \in LabelTables}

ParamCalls == {[NoCall EXCEPT !.fn = "convert_param", !.param = param] : param \in ParamInputs}

\* Constructor arguments inside and just outside each field's range.
TypeInputs == 0..(RISCV_TYPE_MAX + 1)

OpInputs == {-1, 0, 51, 127, 128}

Funct3Inputs == {-1, 0, 5, 7, 8}

Funct7Inputs == {-1, 0, 32, 127, 128}

InitCalls ==
    {[NoCall EXCEPT !.fn = "init", !.inst_type = t, !.op_code = op, !.funct3 = f3,
                    !.funct7 = f7] :
        t \in TypeInputs, op \in OpInputs, f3 \in Funct3Inputs, f7 \in Funct7Inputs}

FileCalls == {[NoCall EXCEPT !.fn = "compile_file", !.file = file] : file \in Files}

MainCall == [NoCall EXCEPT !.fn = "main"]

Init ==
    /\ call \in CompileCalls \cup LineCalls \cup ParamCalls \cup FileCalls \cup InitCalls
               \cup {MainCall}
    /\ res = NoResult
    /\ stdout = <<>>

Pending(fn) == call.fn = fn /\ res.status = "none"

\* Inst(inst_type, op_code, funct3, funct7)
Construct ==
    /\ Pending("init")
    /\ res' = LET self == Inst(call.inst_type, call.op_code, call.funct3, call.funct7)
              IN  IF self.ok THEN ReturnObj(self)
                  ELSE Raise("ValueError", self.err, <<>>, 0)
    /\ UNCHANGED <<call, stdout>>

\* insts[name].compile(rd, rs1, rs2, imm)
Compile ==
    /\ Pending("compile")
    /\ res' = compile(insts[call.name], IntVal(call.rd), IntVal(call.rs1),
                      IntVal(call.rs2), IntVal(call.imm))
    /\ UNCHANGED <<call, stdout>>

\* Compiler.compile_line(line, pc, labels)
CompileLine ==
    /\ Pending("compile_line")
    /\ res' = compile_line(call.line, call.pc, call.labels)
    /\ UNCHANGED <<call, stdout>>

\* Compiler.convert_param(param)
ConvertParam ==
    /\ Pending("convert_param")
    /\ res' = convert_param(call.param)
    /\ UNCHANGED <<call, stdout>>

\* Compiler.compile(file)
CompileFile ==
    /\ Pending("compile_file")
    /\ res' = compile_file(call.file)
    /\ UNCHANGED <<call, stdout>>

\* main.py: the two printed lines.  An exception ends the program at the
\* print that raised it.
Main ==
    LET direct == compile(insts[<<"a","d","d">>], IntVal(regs[<<"a","0">>]), IntVal(0), IntVal(0), IntVal(0))
        viaLine == compile_line(<<"a","d","d"," ","a","0",","," ","z","e","r","o",","," ","z","e","r","o">>, 0, EmptyLabels)
    IN  /\ Pending("main")
        /\ res' = IF direct.status = "ok" THEN viaLine ELSE direct
        /\ stdout' = IF direct.status # "ok" THEN <<>>
                     ELSE IF viaLine.status # "ok" THEN <<value_strh(direct.word)>>
                     ELSE <<value_strh(direct.word), value_strh(viaLine.word)>>
        /\ UNCHANGED call

Next == Construct \/ Compile \/ CompileLine \/ ConvertParam \/ CompileFile \/ Main

Spec == Init /\ [][Next]_vars

(***************************************************************************)
(* Reading an encoded word back, by arithmetic on its halves               *)
(***************************************************************************)

\* Bit k (0 = least significant) of a word.
WordBit(w, k) == IF k < 16 THEN (w.lo \div Pow2(k)) % 2 ELSE (w.hi \div Pow2(k - 16)) % 2

\* The unsigned number held in bits top..bottom of a word.
RECURSIVE WordField(_, _, _)
WordField(w, top, bottom) ==
    IF top < bottom THEN 0
    ELSE WordBit(w, bottom) + 2 * WordField(w, top, bottom + 1)

\* Bit k of imm taken modulo 2^32 (two's complement).
ImmBit(imm, k) ==
    IF imm >= 0 THEN (IF k = 31 THEN 0 ELSE (imm \div Pow2(k)) % 2)
    ELSE (IF k = 31 THEN 1 ELSE 1 - (((-(imm + 1)) \div Pow2(k)) % 2))

\* The unsigned number imm[top:bottom].
RECURSIVE ImmField(_, _, _)
ImmField(imm, top, bottom) ==
    IF top < bottom THEN 0
    ELSE ImmBit(imm, bottom) + 2 * ImmField(imm, top, bottom + 1)

\* The two's complement reading of an unsigned number of the given width.
SignExtend(n, width) == IF n >= Pow2(width - 1) THEN n - Pow2(width) ELSE n

\* The immediate operand reassembled from the immediate bit groups of a word.
DecodeImm(t, w) ==
    CASE t = RISCV_TYPE_R -> 0
      [] t = RISCV_TYPE_I -> SignExtend(WordField(w, 31, 20), 12)
      [] t = RISCV_TYPE_S ->
           SignExtend(32 * WordField(w, 31, 25) + WordField(w, 11, 7), 12)
      [] t = RISCV_TYPE_B ->
           SignExtend(4096 * WordBit(w, 31) + 2048 * WordBit(w, 7)
                      + 32 * WordField(w, 30, 25) + 2 * WordField(w, 11, 8), 13)
      [] t = RISCV_TYPE_U -> 4096 * SignExtend(WordField(w, 31, 12), 20)
      [] t = RISCV_TYPE_J ->
           SignExtend(1048576 * WordBit(w, 31) + 4096 * WordField(w, 19, 12)
                      + 2048 * WordBit(w, 20) + 2 * WordField(w, 30, 21), 21)

\* The signed range of the immediate field of a format.
FitsField(t, imm) ==
    CASE t = RISCV_TYPE_R -> TRUE
      [] t \in {RISCV_TYPE_I, RISCV_TYPE_S} -> imm \in -2048..2047
      [] t = RISCV_TYPE_B -> imm \in -4096..4095
      [] t = RISCV_TYPE_U -> TRUE
      [] t = RISCV_TYPE_J -> imm \in -1048576..1048575

HasRd(t) == t \in {RISCV_TYPE_R, RISCV_TYPE_I, RISCV_TYPE_U, RISCV_TYPE_J}
HasRs1(t) == t \in {RISCV_TYPE_R, RISCV_TYPE_I, RISCV_TYPE_S, RISCV_TYPE_B}
HasRs2(t) == t \in {RISCV_TYPE_R, RISCV_TYPE_S, RISCV_TYPE_B}

Returned(fn) == call.fn = fn /\ res.status # "none"

ValidRegs == call.rd \in 0..31 /\ call.rs1 \in 0..31 /\ call.rs2 \in 0..31

CallType == insts[call.name].type

(***************************************************************************)
(* C1  Inst.compile returns, for registers in 0..31 and any 32-bit imm,    *)
(* the word whose bits are the fields of the format, most significant      *)
(* first: R funct7|rs2|rs1|funct3|rd|op, I imm[11:0]|rs1|funct3|rd|op,     *)
(* S imm[11:5]|rs2|rs1|funct3|imm[4:0]|op, B imm[12]|imm[10:5]|rs2|rs1|    *)
(* funct3|imm[4:1]|imm[11]|op, U imm[31:12]|rd|op, J imm[20]|imm[10:1]|    *)
(* imm[11]|imm[19:12]|rd|op; the fields fill exactly 32 bits.              *)
(***************************************************************************)
C1_Layout(t, i, w, rd, rs1, rs2, imm) ==
    /\ WordField(w, 6, 0) = i.op.lo
    /\ t = RISCV_TYPE_R =>
          /\ WordField(w, 31, 25) = i.funct7.lo /\ WordField(w, 24, 20) = rs2
          /\ WordField(w, 19, 15) = rs1 /\ WordField(w, 14, 12) = i.funct3.lo
          /\ WordField(w, 11, 7) = rd
    /\ t = RISCV_TYPE_I =>
          /\ WordField(w, 31, 20) = ImmField(imm, 11, 0)
          /\ WordField(w, 19, 15) = rs1 /\ WordField(w, 14, 12) = i.funct3.lo
          /\ WordField(w, 11, 7) = rd
    /\ t = RISCV_TYPE_S =>
          /\ WordField(w, 31, 25) = ImmField(imm, 11, 5) /\ WordField(w, 24, 20) = rs2
          /\ WordField(w, 19, 15) = rs1 /\ WordField(w, 14, 12) = i.funct3.lo
          /\ WordField(w, 11, 7) = ImmField(imm, 4, 0)
    /\ t = RISCV_TYPE_B =>
          /\ WordBit(w, 31) = ImmBit(imm, 12)
          /\ WordField(w, 30, 25) = ImmField(imm, 10, 5) /\ WordField(w, 24, 20) = rs2
          /\ WordField(w, 19, 15) = rs1 /\ WordField(w, 14, 12) = i.funct3.lo
          /\ WordField(w, 11, 8) = ImmField(imm, 4, 1)
          /\ WordBit(w, 7) = ImmBit(imm, 11)
    /\ t = RISCV_TYPE_U =>
          /\ WordField(w, 31, 12) = ImmField(imm, 31, 12)
          /\ WordField(w, 11, 7) = rd
    /\ t = RISCV_TYPE_J =>
          /\ WordBit(w, 31) = ImmBit(imm, 20)
          /\ WordField(w, 30, 21) = ImmField(imm, 10, 1)
          /\ WordBit(w, 20) = ImmBit(imm, 11)
          /\ WordField(w, 19, 12) = ImmField(imm, 19, 12)
          /\ WordField(w, 11, 7) = rd

C1_CompileLayout ==
    (Returned("compile") /\ ValidRegs) =>
        /\ res.status = "ok"
        /\ res.word.hi \in 0..65535 /\ res.word.lo \in 0..65535
        /\ C1_Layout(CallType, insts[call.name], res.word,
                     call.rd, call.rs1, call.rs2, call.imm)

\* beq with a negative offset whose bits 12 and 11 differ has been encoded.
C1_Witness ==
    /\ Returned("compile") /\ ValidRegs
    /\ call.name = <<"b","e","q">> /\ call.imm = -4098 /\ call.rs2 = 21
    /\ res.status = "ok"

(***************************************************************************)
(* Expected readings of the operand tokens the lines are built from,       *)
(* written out from the register names and decimal notation                *)
(***************************************************************************)

RegisterIndex ==
    <<"z","e","r","o">> :> 0 @@ <<"x","2">> :> 2 @@ <<"t","0">> :> 5 @@ <<"a","0">> :> 10 @@ <<"a","1">> :> 11 @@ <<"a","2">> :> 12

SignedDecimal ==
    <<"0">> :> 0 @@ <<"3">> :> 3 @@ <<"5">> :> 5 @@ <<"1","2">> :> 12 @@ <<"2","0","4","7">> :> 2047 @@
    <<"2","0","4","8">> :> 2048 @@ <<"-","1">> :> -1 @@ <<"-","2","0","4","8">> :> -2048

LineType == insts[call.mn].type

(***************************************************************************)
(* C2  compile_line on `m rd, rs1, rs2` with m of type R yields the word   *)
(* insts[m].compile gives for the registers' indices and imm 0; main       *)
(* prints 00000533 for both `add a0, zero, zero` and                       *)
(* insts["add"].compile(10, 0, 0, 0), binary 0..010100110011.              *)
(***************************************************************************)
C2_RLine ==
    /\ call.mn \in DOMAIN insts /\ LineType = RISCV_TYPE_R
    /\ ~call.mem /\ Len(call.ops) = 3
    /\ \A i \in 1..3 : call.ops[i] \in DOMAIN RegisterIndex

C2_RTypeLineEqualsDirect ==
    /\ (Returned("compile_line") /\ C2_RLine) =>
          /\ res.status = "ok"
          /\ res = compile(insts[call.mn], IntVal(RegisterIndex[call.ops[1]]),
                           IntVal(RegisterIndex[call.ops[2]]),
                           IntVal(RegisterIndex[call.ops[3]]), IntVal(0))
          /\ WordField(res.word, 11, 7) = RegisterIndex[call.ops[1]]
          /\ WordField(res.word, 19, 15) = RegisterIndex[call.ops[2]]
          /\ WordField(res.word, 24, 20) = RegisterIndex[call.ops[3]]
    /\ Returned("main") =>
          /\ stdout = <<<<"0","0","0","0","0","5","3","3">>, <<"0","0","0","0","0","5","3","3">>>>
          /\ value_strb(res.word) = <<"0","0","0","0","0","0","0","0","0","0","0","0","0","0","0","0","0","0","0","0","0","1","0","1","0","0","1","1","0","0","1","1">>

\* `sra a0, zero, a1 # note` has been compiled.
C2_Witness ==
    /\ Returned("compile_line") /\ C2_RLine
    /\ call.mn = <<"s","r","a">> /\ call.ops = <<<<"a","0">>, <<"z","e","r","o">>, <<"a","1">>>> /\ call.deco = "comment"
    /\ res.status = "ok"

(***************************************************************************)
(* C3  Round trip.  As claimed: for every instruction and operands with    *)
(* registers in 0..31 and imm within the signed range of the format's      *)
(* immediate field, slicing the encoded word recovers rd (11..7), rs1      *)
(* (19..15), rs2 (24..20) where the format carries them and the immediate  *)
(* reassembled from the immediate bit groups, for I, S, B, U and J alike.  *)
(***************************************************************************)
C3_RegistersRecovered ==
    /\ HasRd(CallType) => WordField(res.word, 11, 7) = call.rd
    /\ HasRs1(CallType) => WordField(res.word, 19, 15) = call.rs1
    /\ HasRs2(CallType) => WordField(res.word, 24, 20) = call.rs2

\* imm is even where the format does not store bit 0.
Aligned(t, imm) == t \in {RISCV_TYPE_B, RISCV_TYPE_J} => imm % 2 = 0

C3_RoundTripAsClaimed ==
    (Returned("compile") /\ ValidRegs /\ FitsField(CallType, call.imm)
        /\ Aligned(CallType, call.imm)) =>
        /\ res.status = "ok"
        /\ C3_RegistersRecovered
        /\ CallType # RISCV_TYPE_R => DecodeImm(CallType, res.word) = call.imm

(***************************************************************************)
(* C3 as amended: the registers are recovered, and the immediate is        *)
(* recovered for I, S, B and J; for U, which stores only imm[31:12], it is *)
(* recovered exactly when the low 12 bits of imm are zero, and otherwise   *)
(* the slices give imm with its low 12 bits cleared.                       *)
(***************************************************************************)
C3_RoundTrip ==
    (Returned("compile") /\ ValidRegs /\ FitsField(CallType, call.imm)
        /\ Aligned(CallType, call.imm)) =>
        /\ res.status = "ok"
        /\ C3_RegistersRecovered
        /\ CallType \in {RISCV_TYPE_I, RISCV_TYPE_S, RISCV_TYPE_B, RISCV_TYPE_J} =>
              DecodeImm(CallType, res.word) = call.imm
        /\ CallType = RISCV_TYPE_U =>
              /\ DecodeImm(CallType, res.word) = call.imm - (call.imm % 4096)
              /\ (DecodeImm(CallType, res.word) = call.imm) <=> (call.imm % 4096 = 0)

\* jal with the most negative even offset of its field has been encoded.
C3_Witness ==
    /\ Returned("compile") /\ ValidRegs
    /\ call.name = <<"j","a","l">> /\ call.imm = -1048576 /\ call.rd = 21
    /\ res.status = "ok"
    /\ DecodeImm(CallType, res.word) = call.imm

(***************************************************************************)
(* C4  An immediate outside the signed range of the format's field is      *)
(* rejected with an error and never truncated: for every I-type            *)
(* instruction 2047 and -2048 encode, 2048 and -2049 fail.                 *)
(***************************************************************************)
C4_ImmediateRangeChecked ==
    (Returned("compile") /\ ValidRegs) =>
        /\ ~FitsField(CallType, call.imm) => res.status = "error"
        /\ (CallType = RISCV_TYPE_I /\ call.imm \in {2047, -2048}) => res.status = "ok"
        /\ (CallType = RISCV_TYPE_I /\ call.imm \in {2048, -2049}) => res.status = "error"

(***************************************************************************)
(* C5  For every B-type and J-type instruction an odd byte offset fails    *)
(* with an error and produces no word.                                     *)
(***************************************************************************)
C5_OddOffsetRejected ==
    (Returned("compile") /\ ValidRegs /\ CallType \in {RISCV_TYPE_B, RISCV_TYPE_J}
        /\ call.imm % 2 = 1) =>
        /\ res.status = "error"
        /\ res.word = ZeroWord

(***************************************************************************)
(* C6  compile_line on a pseudo-instruction line produces the word         *)
(* compile_line produces on the pseudo-instruction's template with the     *)
(* line's operands substituted for {0}, {1}, {2}; `li t0, 5` gives the     *)
(* word of `addi t0, zero, 5`.                                             *)
(***************************************************************************)
\* template.format(*ops)
RECURSIVE Substitute(_, _)
Substitute(tpl, ops) ==
    IF tpl = <<>> THEN <<>>
    ELSE IF Head(tpl) = "{"
         THEN ops[DigitValue(tpl[2]) + 1] \o Substitute(SubSeq(tpl, 4, Len(tpl)), ops)
         ELSE <<Head(tpl)>> \o Substitute(Tail(tpl), ops)

\* The number of operands a template takes.
PlaceholderCount(tpl) ==
    Cardinality({tpl[i + 1] : i \in {j \in 1..(Len(tpl) - 1) : tpl[j] = "{"}})

C6_PseudoLine ==
    /\ call.mn \in DOMAIN pinsts /\ ~call.mem
    /\ Len(call.ops) = PlaceholderCount(pinsts[call.mn])

C6_Expanded == compile_line(Substitute(pinsts[call.mn], call.ops), call.pc, call.labels)

C6_PseudoEqualsTemplate ==
    /\ (Returned("compile_line") /\ C6_PseudoLine /\ C6_Expanded.status = "ok") =>
          /\ res.status = "ok"
          /\ res.word = C6_Expanded.word
    /\ (Returned("compile_line") /\ call.line = <<"l","i"," ","t","0",","," ","5">>) =>
          /\ res.status = "ok"
          /\ res.word = compile_line(<<"a","d","d","i"," ","t","0",","," ","z","e","r","o",","," ","5">>, call.pc, call.labels).word

(***************************************************************************)
(* C7  compile_line on a line whose mnemonic is in neither table (exact,   *)
(* case-sensitive match) fails with an error naming the mnemonic and the   *)
(* 1-based line number pc // 4 + 1 and returns no word; `foo a0, a1` at    *)
(* pc = 8 names line 3.                                                    *)
(***************************************************************************)
C7_UnknownMnemonic ==
    (Returned("compile_line") /\ call.mn \notin DOMAIN insts
        /\ call.mn \notin DOMAIN pinsts) =>
        /\ res.status = "error" /\ res.exc = "ValueError"
        /\ res.msg = "Invalid instruction"
        /\ res.what = call.mn
        /\ \A n \in 1..(MaxLine + 1) : call.pc = 4 * (n - 1) => res.line = n
        /\ res.word = ZeroWord

\* `foo a0, a1` has been compiled as the third instruction.
C7_Witness ==
    /\ Returned("compile_line")
    /\ call.line = <<"f","o","o"," ","a","0",","," ","a","1">> /\ call.pc = 8
    /\ res.status = "error" /\ res.line = 3

(***************************************************************************)
(* C8  convert_param: a register alias gives its canonical index; x<N>     *)
(* gives N for 0 <= N <= 31 and fails otherwise; a numeric token,          *)
(* optionally signed (5, -1, -2048), gives that integer.                   *)
(***************************************************************************)
CanonicalIndex ==
    <<"z","e","r","o">> :> 0 @@ <<"r","a">> :> 1 @@ <<"s","p">> :> 2 @@ <<"s","0">> :> 8 @@ <<"f","p">> :> 8 @@
    <<"a","0">> :> 10 @@ <<"a","1">> :> 11 @@ <<"a","2">> :> 12 @@ <<"a","3">> :> 13 @@ <<"a","4">> :> 14 @@
    <<"a","5">> :> 15 @@ <<"a","6">> :> 16 @@ <<"a","7">> :> 17 @@ <<"t","6">> :> 31

C8_ConvertParamOrder ==
    Returned("convert_param") =>
        /\ call.param \in DOMAIN CanonicalIndex =>
              res.status = "ok" /\ res.val = IntVal(CanonicalIndex[call.param])
        /\ \A n \in 0..MaxXReg : call.param = XToken(n) =>
              IF n <= 31 THEN res.status = "ok" /\ res.val = IntVal(n)
              ELSE res.status = "error"
        /\ call.param \in DOMAIN SignedDecimal =>
              res.status = "ok" /\ res.val = IntVal(SignedDecimal[call.param])

(***************************************************************************)
(* C9  For every catalog instruction, compile_line on a line whose number  *)
(* of operands (after offset(base) splitting) differs from the number the  *)
(* format expects (3 for R, I, S, B; 2 for U, J) fails with a parameter    *)
(* error and encodes no word.                                              *)
(***************************************************************************)
ExpectedOperands(t) == IF t \in {RISCV_TYPE_U, RISCV_TYPE_J} THEN 2 ELSE 3

C9_OperandCountChecked ==
    (Returned("compile_line") /\ call.mn \in DOMAIN insts
        /\ Len(call.ops) # ExpectedOperands(LineType)) =>
        /\ res.status = "error" /\ res.exc = "ValueError"
        /\ res.msg = "Invalid parameters"
        /\ res.word = ZeroWord

\* `lui a0, 5(x2)`, three operands after splitting, has been refused.
C9_Witness ==
    /\ Returned("compile_line")
    /\ call.line = <<"l","u","i"," ","a","0",","," ","5","(","x","2",")">>
    /\ res.status = "error" /\ res.msg = "Invalid parameters"

(***************************************************************************)
(* C10  For every load `m rd, off(base)` and store `m rs2, off(base)` the  *)
(* encoded word is insts[m].compile with rs1 = base, imm = off and rd      *)
(* (load) or rs2 (store) the first operand.                                *)
(***************************************************************************)
Loads == {<<"l","b">>, <<"l","h">>, <<"l","w">>, <<"l","b","u">>, <<"l","h","u">>}

Stores == {<<"s","b">>, <<"s","h">>, <<"s","w">>}

C10_MemLine ==
    /\ call.mn \in Loads \cup Stores /\ call.mem /\ Len(call.ops) = 3
    /\ call.ops[1] \in DOMAIN RegisterIndex /\ call.ops[2] \in DOMAIN RegisterIndex
    /\ call.ops[3] \in DOMAIN SignedDecimal

C10_OffsetBaseOperands ==
    (Returned("compile_line") /\ C10_MemLine) =>
        LET first == IntVal(RegisterIndex[call.ops[1]])
            base  == IntVal(RegisterIndex[call.ops[2]])
            off   == IntVal(SignedDecimal[call.ops[3]])
        IN  /\ res.status = "ok"
            /\ call.mn \in Loads => res = compile(insts[call.mn], first, base, IntVal(0), off)
            /\ call.mn \in Stores => res = compile(insts[call.mn], IntVal(0), base, first, off)

(***************************************************************************)
(* C11  Assembling a program resolves every label operand of a branch or   *)
(* jump against the symbol table of the whole program, so a reference to   *)
(* a label declared later is encoded with immediate = label address -      *)
(* address of the referencing instruction: `j end` at address 0 with       *)
(* `end:` at address 12 encodes the J-type offset 12.                      *)
(***************************************************************************)
\* `j end` first, three instructions, then the line that declares end.
C11_ForwardProgram ==
    <<<<"j"," ","e","n","d">>, <<"a","d","d"," ","a","0",","," ","z","e","r","o",","," ","a","1">>, <<"a","d","d"," ","a","0",","," ","z","e","r","o",","," ","a","1">>,
      <<"e","n","d",":"," ","a","d","d"," ","a","0",","," ","z","e","r","o",","," ","a","1">>>>

C11_LabelUse ==
    /\ call.line \in {<<"j"," ","e","n","d">>, <<"j","a","l"," ","x","0",","," ","e","n","d">>}
    /\ call.labels = <<"e","n","d">> :> 12

C11_ForwardLabelResolved ==
    /\ (Returned("compile_file") /\ call.file = C11_ForwardProgram) => res.status = "ok"
    /\ (Returned("compile_line") /\ C11_LabelUse) =>
          /\ res.status = "ok"
          /\ WordField(res.word, 6, 0) = 111
          /\ DecodeImm(RISCV_TYPE_J, res.word) = 12 - call.pc

(***************************************************************************)
(* C12  While assembling any sequence of lines the program counter is 4    *)
(* times the number of instructions emitted: a blank or comment-only line  *)
(* emits no word, raises no error and leaves the program counter alone,    *)
(* every other line advances it by 4 per instruction emitted.              *)
(***************************************************************************)
C12_PlainLines == {<<>>, <<"#"," ","n","o","t","e">>, <<"a","d","d"," ","a","0",","," ","z","e","r","o",","," ","a","1">>}

C12_BlankOrComment ==
    /\ call.mn = <<>> /\ call.ops = <<>>
    /\ call.deco \in {"plain", "comment"}

C12_BlankLinesSkipped ==
    /\ (Returned("compile_file") /\ \A i \in 1..Len(call.file) : call.file[i] \in C12_PlainLines)
          => res.status = "ok"
    /\ (Returned("compile_line") /\ C12_BlankOrComment) => res.status # "error"

(***************************************************************************)
(* C13  Numeric fields are range-checked before any bit is packed:         *)
(* constructing an Inst fails with ValueError when the type is outside     *)
(* 1..6, the opcode outside 0..0x7F, funct3 outside 0..7 or funct7 outside *)
(* 0..0x7F; Inst.compile fails with ValueError and returns no word when    *)
(* rd, rs1 or rs2 is outside 0..31; a returned word is in 0..2^32-1 and    *)
(* its bits 6..0 are the instruction's opcode.                             *)
(***************************************************************************)
C13_FieldsInRange ==
    /\ call.inst_type \in 1..6 /\ call.op_code \in 0..127
    /\ call.funct3 \in 0..7 /\ call.funct7 \in 0..127

C13_RangeChecked ==
    /\ Returned("init") =>
          IF C13_FieldsInRange
          THEN /\ res.status = "ok"
               /\ res.obj.type = call.inst_type
               /\ res.obj.op = [hi |-> 0, lo |-> call.op_code]
               /\ res.obj.funct3 = [hi |-> 0, lo |-> call.funct3]
               /\ res.obj.funct7 = [hi |-> 0, lo |-> call.funct7]
          ELSE /\ res.status = "error" /\ res.exc = "ValueError"
               /\ res.obj = NoInst
    /\ Returned("compile") =>
          /\ ~ValidRegs =>
                /\ res.status = "error" /\ res.exc = "ValueError"
                /\ res.word = ZeroWord
          /\ res.status = "ok" =>
                /\ res.word.hi \in 0..65535 /\ res.word.lo \in 0..65535
                /\ res.word.lo % 128 = insts[call.name].op.lo

\* An Inst whose only bad field is an opcode of 128 has been refused.
C13_Witness ==
    /\ Returned("init")
    /\ call.inst_type = 2 /\ call.op_code = 128 /\ call.funct3 = 5 /\ call.funct7 = 32
    /\ res.status = "error" /\ res.msg = "Invalid op value"

(***************************************************************************)
(* C14  For every I-type catalog instruction the encoded word does not     *)
(* depend on funct7: bits 31..20 are imm[11:0], so srli (funct7 0000000)   *)
(* and srai (funct7 0100000) encode to the same word for the same rd, rs1  *)
(* and imm.                                                                *)
(***************************************************************************)
C14_WithFunct7(f7) ==
    compile([insts[call.name] EXCEPT !.funct7 = BinNum(f7)], IntVal(call.rd),
            IntVal(call.rs1), IntVal(call.rs2), IntVal(call.imm))

C14_OtherShift == IF call.name = <<"s","r","a","i">> THEN <<"s","r","l","i">> ELSE <<"s","r","a","i">>

C14_Funct7Ignored ==
    (Returned("compile") /\ ValidRegs /\ CallType = RISCV_TYPE_I) =>
        /\ res.status = "ok"
        /\ WordField(res.word, 31, 20) = ImmField(call.imm, 11, 0)
        /\ \A f7 \in {0, 1, 32, 64, 127} : res = C14_WithFunct7(f7)
        /\ call.name \in {<<"s","r","l","i">>, <<"s","r","a","i">>} =>
              res = compile(insts[C14_OtherShift], IntVal(call.rd), IntVal(call.rs1),
                            IntVal(call.rs2), IntVal(call.imm))

\* srai, whose funct7 is 0100000, has been encoded with shift amount 3.
C14_Witness ==
    /\ Returned("compile") /\ ValidRegs
    /\ call.name = <<"s","r","a","i">> /\ call.imm = 3 /\ call.rd = 10
    /\ insts[call.name].funct7.lo = 32
    /\ res.status = "ok"
    /\ WordField(res.word, 31, 25) = 0

====
